---- MODULE Spec2Model ----
(***************************************************************************)
(* EcoVision, src/utils/plastic_route.py: plastic-waste collection routes, *)
(* and the endpoint explain_shap of src/backend/api.py (at the end).       *)
(*                                                                         *)
(*   haversine                   great-circle distance of two coordinates  *)
(*   cluster_hotspots            KMeans(n_clusters, random_state=42) on    *)
(*                               the latitude/longitude columns of a       *)
(*                               DataFrame; writes the column "Cluster"    *)
(*   optimize_route              greedy nearest-neighbour visiting order   *)
(*   generate_collection_routes  cluster, then one route per cluster       *)
(*                                                                         *)
(* Units.  A coordinate is an integer number of hundredths of a degree     *)
(* (12.97 is 1297).  A distance is an integer number of metres: the value  *)
(* of haversine (kilometres, a float) times 1000, rounded.  On the places  *)
(* of this model the rounding keeps the order and the equalities of the    *)
(* float values, so every comparison dist < min_dist decides as in Python. *)
(*                                                                         *)
(* Python values.  A list is a sequence; Python's index i is position i+1. *)
(* An exception is the field err of a call's result, "none" when the call  *)
(* returned.  A DataFrame is a function from column names to columns.      *)
(*                                                                         *)
(* Local variables.  CHOOSE r \in {F(x) : x \in {e}} : TRUE is F(e) with   *)
(* e evaluated once and held in x, as an assignment x = e in the code.     *)
(***************************************************************************)
EXTENDS Integers, Sequences, FiniteSets, Bags, TLC

VARIABLES
    df,         \* the caller's DataFrame, the argument of every call
    rand42,     \* the stream of numpy's RandomState(42) (see RandStates)
    np_random,  \* the state of numpy's global generator, np.random
    last,       \* the last call: operation, arguments, the caller's frame
                \* before and after it, result
    earlier,    \* the result of the call before it, when it was the same call
    server      \* src/backend/api.py: the files under models/saved and
                \* data/processed, the requests being handled, the
                \* number of requests received, and the training script

vars == <<df, rand42, np_random, last, earlier, server>>

(***************************************************************************)
(* Bounds of the model.                                                    *)
(***************************************************************************)
\* the longest list of hotspots a DataFrame of the model holds
MaxLen == 4

\* the most rows a processed data file of the server holds
MaxRows == 2

(***************************************************************************)
(* The places of the model: the six hotspots of the demo (lines 121-125).  *)
(***************************************************************************)
B1 == <<1297, 7759>>
B2 == <<1298, 7760>>
B3 == <<1301, 7758>>
M1 == <<1907, 7287>>
M2 == <<1908, 7288>>
D1 == <<2861, 7721>>

Places == <<B1, B2, B3, M1, M2, D1>>

\* the places the enumerated DataFrames are built from
Universe == {B1, M1, D1}

PlaceNo(lat, lon) == CHOOSE i \in 1..Len(Places) : Places[i] = <<lat, lon>>

(***************************************************************************)
(* haversine, lines 22-31, tabulated on Places in metres: the row of a     *)
(* place holds 6371 * 2 * asin(sqrt(a)) * 1000, rounded, with              *)
(* a = sin(dlat/2)^2 + cos(lat1) * cos(lat2) * sin(dlon/2)^2 in radians.   *)
(***************************************************************************)
\* the table with a = sin(dlat/2)^2 + cos(lat1) * cos(lat1) * sin(dlon/2)^2
HaversineMetresCosLat1Twice ==
    << <<      0,    1553,    4578,  849791,  850028, 1739582>>,
       <<   1553,       0,    3978,  849545,  849779, 1738497>>,
       <<   4578,    3978,       0,  845536,  845770, 1735110>>,
       << 840583,  840307,  836371,       0,    1530, 1155110>>,
       << 840843,  840565,  836628,    1530,       0, 1153660>>,
       <<1739489, 1738399, 1735022, 1142628, 1141231,       0>> >>

HaversineMetres ==
    << <<      0,    1553,    4578,  845129,  845378, 1739533>>,
       <<   1553,       0,    3978,  844868,  845114, 1738445>>,
       <<   4578,    3978,       0,  840896,  841142, 1735063>>,
       << 845129,  844868,  840896,       0,    1530, 1148655>>,
       << 845378,  845114,  841142,    1530,       0, 1147233>>,
       <<1739533, 1738445, 1735063, 1148655, 1147233,       0>> >>

haversine(lat1, lon1, lat2, lon2) ==
    HaversineMetres[PlaceNo(lat1, lon1)][PlaceNo(lat2, lon2)]

(***************************************************************************)
(* Python lists.                                                           *)
(***************************************************************************)
\* float("inf"), line 64: above every distance
Infinity == 2147483647

\* None, line 65: no index
None == -Infinity

\* points[i] raises IndexError unless -len <= i < len
IndexInRange(points, i) == -Len(points) <= i /\ i < Len(points)

\* points[0], whatever the index
GetItemFirst(points, i) == points[1]

\* points[i]: a negative i counts from the end of the list
GetItem(points, i) ==
    IF i >= 0 THEN points[i + 1] ELSE points[Len(points) + i + 1]

\* i == visited[-1]
InVisitedLastOnly(i, visited) == visited[Len(visited)] = i

\* i in visited, line 68

InVisited(i, visited) == \E j \in 1..Len(visited) : visited[j] = i

(***************************************************************************)
(* optimize_route, lines 52-81.                                            *)
(***************************************************************************)
\* the for loop with "dist > min_dist" from the first candidate on: the
\* farthest unvisited point
RECURSIVE ForLoopFarthest(_, _, _, _, _, _)
ForLoopFarthest(points, visited, lastStop, i, min_dist, next_idx) ==
    IF i >= Len(points) THEN next_idx
    ELSE IF InVisited(i, visited)
         THEN ForLoopFarthest(points, visited, lastStop, i + 1, min_dist, next_idx)
         ELSE LET p == points[i + 1]
                  dist == haversine(lastStop[1], lastStop[2], p[1], p[2])
              IN  IF next_idx = None \/ dist > min_dist
                  THEN ForLoopFarthest(points, visited, lastStop, i + 1, dist, i)
                  ELSE ForLoopFarthest(points, visited, lastStop, i + 1,
                                       min_dist, next_idx)

\* the for loop with "dist <= min_dist": the last of the nearest points
RECURSIVE ForLoopLastOnTie(_, _, _, _, _, _)
ForLoopLastOnTie(points, visited, lastStop, i, min_dist, next_idx) ==
    IF i >= Len(points) THEN next_idx
    ELSE IF InVisited(i, visited)
         THEN ForLoopLastOnTie(points, visited, lastStop, i + 1, min_dist, next_idx)
         ELSE LET p == points[i + 1]
                  dist == haversine(lastStop[1], lastStop[2], p[1], p[2])
              IN  IF dist <= min_dist
                  THEN ForLoopLastOnTie(points, visited, lastStop, i + 1, dist, i)
                  ELSE ForLoopLastOnTie(points, visited, lastStop, i + 1,
                                        min_dist, next_idx)

\* the for loop of lines 67-76 from index i on; its value is next_idx
RECURSIVE ForLoop(_, _, _, _, _, _)
ForLoop(points, visited, lastStop, i, min_dist, next_idx) ==
    IF i >= Len(points) THEN next_idx
    ELSE IF InVisited(i, visited)
         THEN ForLoop(points, visited, lastStop, i + 1, min_dist, next_idx)
         ELSE LET p == points[i + 1]
                  dist == haversine(lastStop[1], lastStop[2], p[1], p[2])
              IN  IF dist < min_dist
                  THEN ForLoop(points, visited, lastStop, i + 1, dist, i)
                  ELSE ForLoop(points, visited, lastStop, i + 1, min_dist, next_idx)

\* the while loop of lines 62-79 and the return of line 81
RECURSIVE WhileLoop(_, _, _)
\* lines 78-79 with the next_idx of the for loop; points[None] is a TypeError
VisitNext(points, visited, route, next_idx) ==
    IF next_idx = None
    THEN [err |-> "TypeError", route |-> <<>>, visited |-> visited]
    ELSE WhileLoop(points, Append(visited, next_idx),
                   Append(route, points[next_idx + 1]))

\* the while loop with "len(visited) <= len(points)"
WhileLoopOnceMore(points, visited, route) ==
    IF ~(Len(visited) <= Len(points))
    THEN [err |-> "none", route |-> route, visited |-> visited]
    ELSE VisitNext(points, visited, route,
                   ForLoop(points, visited, route[Len(route)], 0, Infinity, None))

WhileLoop(points, visited, route) ==
    IF ~(Len(visited) < Len(points))
    THEN [err |-> "none", route |-> route, visited |-> visited]
    ELSE VisitNext(points, visited, route,
                   ForLoop(points, visited, route[Len(route)], 0, Infinity, None))

\* optimize_route without lines 56-57
optimize_route_index_first(points, start_index) ==
    IF ~IndexInRange(points, start_index)
    THEN [err |-> "IndexError", route |-> <<>>, visited |-> <<>>]
    ELSE WhileLoop(points, <<start_index>>, <<GetItem(points, start_index)>>)

optimize_route(points, start_index) ==
    IF Len(points) = 0
    THEN [err |-> "none", route |-> <<>>, visited |-> <<>>]
    ELSE IF ~IndexInRange(points, start_index)
         THEN [err |-> "IndexError", route |-> <<>>, visited |-> <<>>]
         ELSE WhileLoop(points, <<start_index>>, <<GetItem(points, start_index)>>)

(***************************************************************************)
(* KMeans(n_clusters=n_clusters, random_state=42).fit_predict(coords),     *)
(* lines 43-44: scikit-learn's KMeans with its defaults (init="k-means++", *)
(* one initialisation, Lloyd's algorithm), on exact arithmetic.            *)
(*                                                                         *)
(* A sample is a tuple of integers.  A centre is a record [sum, weight]    *)
(* standing for the point sum / weight: the mean of its members.           *)
(***************************************************************************)
\* the streams RandomState(42) may stand for: numpy's generator is not
\* computed here, so Init takes the stream from this family; it is the same
\* stream in every fit, because every fit seeds a new RandomState with 42
RandStates == 0..7

\* the number of levels the draws of a stream are quantised to
RandLevels == Cardinality(RandStates)

\* the state of the stream after j draws
RECURSIVE RandState(_, _)
RandState(x0, j) ==
    IF j = 0 THEN x0 ELSE (5 * RandState(x0, j - 1) + 1) % RandLevels

\* draw number j (from 0) of random_state.uniform(), a float in (0, 1), is
\* UniformNum(x0, j) / UniformDen
UniformNum(x0, j) == 2 * RandState(x0, j) + 1

UniformDen == 2 * RandLevels

RECURSIVE SumSeq(_)
SumSeq(s) == IF s = <<>> THEN 0 ELSE s[1] + SumSeq(Tail(s))

\* squared Euclidean distance of two samples
SqDist(x, y) == SumSeq([d \in 1..Len(x) |-> (x[d] - y[d]) * (x[d] - y[d])])

Min2(a, b) == IF a < b THEN a ELSE b

\* np.argmin: the first position of the least value
ArgMin(s) ==
    CHOOSE i \in 1..Len(s) :
        \A j \in 1..Len(s) : s[i] < s[j] \/ (s[i] = s[j] /\ i <= j)

\* n_local_trials = 2 + int(np.log(n_clusters))
NLocalTrials(k) == IF k < 3 THEN 2 ELSE IF k < 8 THEN 3 ELSE 4

\* the first sample, whatever is drawn
SearchSortedFirst(closest, num, pot) == 1

\* np.searchsorted(cumsum(closest), u * pot), clipped to the last sample:
\* the first sample whose cumulated weight reaches u * pot
SearchSorted(closest, num, pot) ==
    LET n == Len(closest)
        hits == {i \in 1..n :
                    SumSeq(SubSeq(closest, 1, i)) * UniformDen >= num * pot}
    IN  IF hits = {} THEN n ELSE CHOOSE i \in hits : \A j \in hits : i <= j

\* k-means++: the samples (positions in X) taken as the initial centres.
\* centers holds those chosen so far, closest the squared distance of every
\* sample to the nearest of them.
\* the squared distances to the nearest centre, were sample c a centre too
WithCenter(X, closest, c) ==
    [i \in 1..Len(X) |-> Min2(closest[i], SqDist(X[c], X[i]))]

\* one draw per trial samples a candidate, with probability as closest;
\* st is [centers, closest]: the samples (positions in X) chosen as centres
\* so far, and the squared distance of every sample to the nearest of them
Candidates(k, x0, st) ==
    [t \in 1..NLocalTrials(k) |->
        SearchSorted(st.closest,
                     UniformNum(x0, (Len(st.centers) - 1) * NLocalTrials(k) + t),
                     SumSeq(st.closest))]

\* the candidate of least potential becomes the next centre
TakeBest(st, cand, newdist, best) ==
    [centers |-> Append(st.centers, cand[best]), closest |-> newdist[best]]

TryCandidates(X, st, cand, newdist) ==
    CHOOSE r \in {TakeBest(st, cand, newdist, best) :
                    best \in {ArgMin([t \in 1..Len(cand) |-> SumSeq(newdist[t])])}} : TRUE

PlusPlusStep(X, k, x0, st, cand) ==
    CHOOSE r \in {TryCandidates(X, st, cand, newdist) :
                    newdist \in {[t \in 1..Len(cand) |->
                                    WithCenter(X, st.closest, cand[t])]}} : TRUE

\* k-means++: one centre more, until there are k
RECURSIVE PlusPlusLoop(_, _, _, _)
PlusPlusLoop(X, k, x0, st) ==
    IF Len(st.centers) >= k THEN st.centers
    ELSE CHOOSE r \in {PlusPlusLoop(X, k, x0, next) :
                         next \in {CHOOSE n \in {PlusPlusStep(X, k, x0, st, cand) :
                                                   cand \in {Candidates(k, x0, st)}} : TRUE}} : TRUE

\* the first centre is random_state.choice(n_samples): sample floor(u * n)
FirstCenter(X, x0) == (UniformNum(x0, 0) * Len(X)) \div UniformDen + 1

KMeansPlusPlus(X, k, x0) ==
    CHOOSE r \in {PlusPlusLoop(X, k, x0, st) :
                    st \in {[centers |-> <<FirstCenter(X, x0)>>,
                             closest |-> [i \in 1..Len(X) |->
                                            SqDist(X[FirstCenter(X, x0)], X[i])]]}} : TRUE

\* squared distance of sample x to centre c, times c.weight^2
ScaledSqDist(x, c) ==
    SumSeq([d \in 1..Len(x) |->
              (c.weight * x[d] - c.sum[d]) * (c.weight * x[d] - c.sum[d])])

\* centre a is strictly nearer to x than centre b
Nearer(x, a, b) ==
    ScaledSqDist(x, a) * b.weight * b.weight
        < ScaledSqDist(x, b) * a.weight * a.weight

\* E-step: the label of a sample is the index (from 0) of its nearest
\* centre, the lowest index among equally near centres
NearestCenter(x, centers) ==
    (CHOOSE j \in 1..Len(centers) :
        \A l \in 1..Len(centers) :
            Nearer(x, centers[j], centers[l])
            \/ (~Nearer(x, centers[l], centers[j]) /\ j <= l)) - 1

\* the labels dealt out in turn, whatever the centres are
AssignLabelsInTurn(X, centers) == [i \in 1..Len(X) |-> (i - 1) % Len(centers)]

AssignLabels(X, centers) == [i \in 1..Len(X) |-> NearestCenter(X[i], centers)]

\* the sum of the samples at the positions of `at`, coordinate by coordinate
VectorSum(X, at) ==
    [d \in 1..Len(X[1]) |->
        SumSeq([i \in 1..Len(X) |-> IF i \in at THEN X[i][d] ELSE 0])]

\* M-step: a centre moves to the mean of its members; a centre without
\* members stays
UpdateCenters(X, labels, centers) ==
    [j \in 1..Len(centers) |->
        LET members == {i \in 1..Len(X) : labels[i] = j - 1}
        IN  IF members = {} THEN centers[j]
            ELSE [sum |-> VectorSum(X, members), weight |-> Cardinality(members)]]

\* max_iter, KMeans' default
max_iter == 300

\* Lloyd's iterations: until the labels repeat, at most max_iter times
RECURSIVE Lloyd(_, _, _, _)
LloydNext(X, labels, centers_new, iter) ==
    IF iter + 1 >= max_iter
    THEN [labels |-> AssignLabels(X, centers_new), centers |-> centers_new]
    ELSE Lloyd(X, centers_new, labels, iter + 1)

LloydIter(X, centers, labels, labels_old, iter) ==
    IF labels = labels_old
    THEN [labels |-> labels, centers |-> UpdateCenters(X, labels, centers)]
    ELSE CHOOSE r \in {LloydNext(X, labels, centers_new, iter) :
                         centers_new \in {UpdateCenters(X, labels, centers)}} : TRUE

Lloyd(X, centers, labels_old, iter) ==
    CHOOSE r \in {LloydIter(X, centers, labels, labels_old, iter) :
                    labels \in {AssignLabels(X, centers)}} : TRUE

\* KMeans(n_clusters=n_clusters): random_state left at its default, None
random_state_unset == None

\* random_state=42, line 43
random_state == 42

\* the draws a fit of n_clusters centres takes from its generator
Draws(n_clusters) == 1 + (n_clusters - 1) * NLocalTrials(n_clusters)

\* sklearn's check_random_state: None is numpy's global generator, whose
\* state the fit advances; an integer seeds a generator of the fit's own
CheckRandomState(seed, seeded, global) ==
    IF seed = None THEN global ELSE seeded

\* the fit from the initial centres: the samples at the positions init
Fit(X, init) ==
    CHOOSE r \in {Lloyd(X, centers, <<>>, 0) :
                    centers \in {[j \in 1..Len(init) |->
                                    [sum |-> X[init[j]], weight |-> 1]]}} : TRUE

Fitted(fit, global_after) ==
    [err |-> "none", labels |-> fit.labels, centers |-> fit.centers,
     np_random |-> global_after]

\* fit_predict: the checks of the parameters and of the data, then the fit.
\* np_random is the state the global generator is left in.
KMeansFitPredict(X, n_clusters, seed, seeded, global) ==
    IF n_clusters < 1
    THEN [err |-> "InvalidParameterError", labels |-> <<>>, centers |-> <<>>,
          np_random |-> global]
    ELSE IF Len(X) = 0 \/ Len(X) < n_clusters
         THEN [err |-> "ValueError", labels |-> <<>>, centers |-> <<>>,
               np_random |-> global]
         ELSE CHOOSE r \in
                {Fitted(fit, IF seed = None
                             THEN RandState(global, Draws(n_clusters))
                             ELSE global) :
                   fit \in {CHOOSE f \in
                              {Fit(X, init) :
                                 init \in {KMeansPlusPlus(X, n_clusters,
                                              CheckRandomState(seed, seeded, global))}} :
                              TRUE}} : TRUE

(***************************************************************************)
(* DataFrames.                                                             *)
(***************************************************************************)
\* pd.DataFrame({"Latitude": ..., "Longitude": ...}) of a list of points
DataFrame(points) ==
    [Latitude |-> [i \in 1..Len(points) |-> points[i][1]],
     Longitude |-> [i \in 1..Len(points) |-> points[i][2]]]

NRows(frame) == Len(frame["Latitude"])

\* frame[[lat_col, lon_col]].values, with the default column names: the
\* rows as pairs (tolist() is the same list in this model)
Coords(frame) ==
    [i \in 1..NRows(frame) |-> <<frame["Latitude"][i], frame["Longitude"][i]>>]

\* frame[col] = values: the column is added, or replaced when it exists
SetColumn(frame, col, values) ==
    [c \in (DOMAIN frame) \cup {col} |-> IF c = col THEN values ELSE frame[c]]

\* the positions of the rows of the cluster, last row first
RECURSIVE RowsOfLastFirst(_, _, _)
RowsOfLastFirst(frame, cluster_id, i) ==
    IF i > NRows(frame) THEN <<>>
    ELSE IF frame["Cluster"][i] = cluster_id
         THEN RowsOfLastFirst(frame, cluster_id, i + 1) \o <<i>>
         ELSE RowsOfLastFirst(frame, cluster_id, i + 1)

\* the positions of the rows of frame with frame["Cluster"] == cluster_id,
\* in the order of the frame
RECURSIVE RowsOf(_, _, _)
RowsOf(frame, cluster_id, i) ==
    IF i > NRows(frame) THEN <<>>
    ELSE IF frame["Cluster"][i] = cluster_id
         THEN <<i>> \o RowsOf(frame, cluster_id, i + 1)
         ELSE RowsOf(frame, cluster_id, i + 1)

\* frame[frame["Cluster"] == cluster_id - 1], for the clusters after the first
ClusterPointsOffByOne(frame, cluster_id) ==
    LET rows == RowsOf(frame, IF cluster_id = 0 THEN 0 ELSE cluster_id - 1, 1)
    IN  [j \in 1..Len(rows) |-> Coords(frame)[rows[j]]]

\* frame[frame["Cluster"] == cluster_id][[lat_col, lon_col]].values.tolist()
ClusterPoints(frame, cluster_id) ==
    LET rows == RowsOf(frame, cluster_id, 1)
    IN  [j \in 1..Len(rows) |-> Coords(frame)[rows[j]]]

\* range(len(frame)): a cluster id for every row
UniqueClustersRangeOfRows(frame) == 0..(NRows(frame) - 1)

\* frame["Cluster"].unique(), as a set
UniqueClusters(frame) == {frame["Cluster"][i] : i \in 1..NRows(frame)}

\* the column "Waste_Tons" of the demo, line 124, in hundredths of a ton
WasteTons == <<500, 600, 400, 800, 700, 900>>

\* pd.DataFrame(data), lines 121-127, of a list of points: the coordinates
\* and, row by row, the demo's "Waste_Tons"
DemoFrame(points) ==
    SetColumn(DataFrame(points), "Waste_Tons", SubSeq(WasteTons, 1, Len(points)))

(***************************************************************************)
(* cluster_hotspots, lines 38-45.  The frame it returns is the caller's    *)
(* frame itself: the field df is the caller's frame after the call.        *)
(***************************************************************************)
\* line 44 and 45, with the outcome of fit_predict: an exception of
\* fit_predict leaves line 44's assignment undone
AssignCluster(frame, kmeans) ==
    IF kmeans.err # "none"
    THEN [err |-> kmeans.err, df |-> frame, labels |-> <<>>,
          centers |-> <<>>, np_random |-> kmeans.np_random]
    ELSE [err |-> "none", df |-> SetColumn(frame, "Cluster", kmeans.labels),
          labels |-> kmeans.labels, centers |-> kmeans.centers,
          np_random |-> kmeans.np_random]

\* cluster_hotspots with coords = df[[lat_col, lon_col, "Waste_Tons"]].values
cluster_hotspots_with_waste(frame, n_clusters, seeded, global) ==
    CHOOSE r \in {AssignCluster(frame, kmeans) :
                    kmeans \in {KMeansFitPredict(
                                   [i \in 1..NRows(frame) |->
                                      <<frame["Latitude"][i], frame["Longitude"][i],
                                        frame["Waste_Tons"][i]>>],
                                   n_clusters, random_state, seeded, global)}} : TRUE

\* cluster_hotspots with KMeans(n_clusters=n_clusters + 1)
cluster_hotspots_one_more(frame, n_clusters, seeded, global) ==
    CHOOSE r \in {AssignCluster(frame, kmeans) :
                    kmeans \in {KMeansFitPredict(Coords(frame), n_clusters + 1,
                                                 random_state, seeded, global)}} : TRUE

\* cluster_hotspots with KMeans(n_clusters=min(n_clusters, len(df)))
cluster_hotspots_clamped(frame, n_clusters, seeded, global) ==
    CHOOSE r \in {AssignCluster(frame, kmeans) :
                    kmeans \in {KMeansFitPredict(Coords(frame),
                                                 Min2(n_clusters, NRows(frame)),
                                                 random_state, seeded, global)}} : TRUE

cluster_hotspots(frame, n_clusters, seeded, global) ==
    CHOOSE r \in {AssignCluster(frame, kmeans) :
                    kmeans \in {KMeansFitPredict(Coords(frame), n_clusters,
                                                 random_state, seeded, global)}} : TRUE

(***************************************************************************)
(* generate_collection_routes, lines 88-112.  routes maps a cluster id to  *)
(* the route stored under the key "Cluster_<id>".                          *)
(***************************************************************************)
\* line 112, or the first exception of optimize_route in the loop
CollectRoutes(df_clustered, np_after, built) ==
    IF \E cluster_id \in DOMAIN built : built[cluster_id].err # "none"
    THEN [err |-> built[CHOOSE c \in DOMAIN built :
                          /\ built[c].err # "none"
                          /\ \A o \in DOMAIN built : built[o].err # "none" => c <= o].err,
          df |-> df_clustered, routes |-> <<>>, np_random |-> np_after]
    ELSE [err |-> "none", df |-> df_clustered,
          routes |-> [cluster_id \in DOMAIN built |-> built[cluster_id].route],
          np_random |-> np_after]

\* lines 98-112 with "except ValueError: return {}" around the clusterer
BuildRoutesEmptyOnError(clustered) ==
    IF clustered.err # "none"
    THEN [err |-> "none", df |-> clustered.df, routes |-> <<>>,
          np_random |-> clustered.np_random]
    ELSE CollectRoutes(clustered.df, clustered.np_random,
                       [cluster_id \in UniqueClusters(clustered.df) |->
                           optimize_route(ClusterPoints(clustered.df, cluster_id), 0)])

\* lines 102-110: one call of optimize_route, with the default start_index
\* 0, for every cluster id present in the column "Cluster"
BuildRoutes(clustered) ==
    IF clustered.err # "none"
    THEN [err |-> clustered.err, df |-> clustered.df, routes |-> <<>>,
          np_random |-> clustered.np_random]
    ELSE CHOOSE r \in
           {CollectRoutes(clustered.df, clustered.np_random, built) :
              built \in {[cluster_id \in UniqueClusters(clustered.df) |->
                           optimize_route(ClusterPoints(clustered.df, cluster_id), 0)]}} :
           TRUE

\* generate_collection_routes with the loop "for cluster_id in range(n_clusters)"
generate_collection_routes_all_ids(frame, n_clusters, seeded, global) ==
    CHOOSE r \in
      {IF clustered.err # "none" THEN BuildRoutes(clustered)
       ELSE CollectRoutes(clustered.df, clustered.np_random,
                          [cluster_id \in 0..(n_clusters - 1) |->
                              optimize_route(ClusterPoints(clustered.df, cluster_id), 0)]) :
         clustered \in {cluster_hotspots(frame, n_clusters, seeded, global)}} : TRUE

generate_collection_routes(frame, n_clusters, seeded, global) ==
    CHOOSE r \in {BuildRoutes(clustered) :
                    clustered \in {cluster_hotspots(frame, n_clusters, seeded, global)}} :
        TRUE

(***************************************************************************)
(* The caller: one DataFrame, built before the first call, a call of one   *)
(* of the three functions on it, and then the same call again, any number  *)
(* of times.                                                               *)
(***************************************************************************)
\* the lists of at most MaxLen places of Universe
PointLists == UNION {[1..n -> Universe] : n \in 0..MaxLen}

\* the six hotspots of the demo, and its three hotspots of Bengaluru
DemoPoints == Places

BengaluruPoints == <<B1, B2, B3>>

\* the DataFrames the caller may hold before the first call
Frames ==
    {DemoFrame(points) : points \in PointLists \cup {DemoPoints, BengaluruPoints}}

\* the values of n_clusters the caller passes
ClusterCounts == 0..(MaxLen + 1)

\* the values of start_index the caller passes
StartIndexes == (-(MaxLen + 1))..(MaxLen + 1)

NoResult == [err |-> "no call"]

\* no server of src/backend/api.py is running
NoServer == [files |-> <<>>, running |-> <<>>, received |-> 0, training |-> "idle"]

\* the first call, or the last call again
MayCall(op, args) == last.op = "none" \/ (last.op = op /\ last.args = args)

\* the result of the last call, when it was this call on these coordinates,
\* with the column "Waste_Tons" that call was given
Earlier(op, args, frame) ==
    IF last.op = op /\ last.args = args /\ Coords(last.before) = Coords(frame)
    THEN [waste_tons |-> last.before["Waste_Tons"]] @@ last.result
    ELSE NoResult

Init ==
    /\ df \in Frames
    /\ rand42 \in RandStates
    /\ np_random = 0
    /\ last = [op |-> "none", args |-> <<>>, before |-> df, after |-> df,
               result |-> NoResult]
    /\ earlier = NoResult
    /\ server = NoServer

\* df, centers = cluster_hotspots(df, n_clusters=n_clusters)
ClusterHotspots(n_clusters) ==
    /\ MayCall("cluster_hotspots", <<n_clusters>>)
    /\ \E r \in {cluster_hotspots(df, n_clusters, rand42, np_random)} :
        /\ df' = r.df
        /\ np_random' = r.np_random
        /\ last' = [op |-> "cluster_hotspots", args |-> <<n_clusters>>,
                    before |-> df, after |-> r.df,
                    result |-> [err |-> r.err, labels |-> r.labels,
                                centers |-> r.centers]]
        /\ earlier' = Earlier("cluster_hotspots", <<n_clusters>>, df)
        /\ UNCHANGED <<rand42, server>>

\* routes = generate_collection_routes(df, n_clusters=n_clusters)
GenerateCollectionRoutes(n_clusters) ==
    /\ MayCall("generate_collection_routes", <<n_clusters>>)
    /\ \E r \in {generate_collection_routes(df, n_clusters, rand42, np_random)} :
        /\ df' = r.df
        /\ np_random' = r.np_random
        /\ last' = [op |-> "generate_collection_routes", args |-> <<n_clusters>>,
                    before |-> df, after |-> r.df,
                    result |-> [err |-> r.err, routes |-> r.routes]]
        /\ earlier' = Earlier("generate_collection_routes", <<n_clusters>>, df)
        /\ UNCHANGED <<rand42, server>>

\* route = optimize_route(df[["Latitude", "Longitude"]].values.tolist(), start_index)
OptimizeRoute(start_index) ==
    /\ MayCall("optimize_route", <<start_index>>)
    /\ \E r \in {optimize_route(Coords(df), start_index)} :
        /\ last' = [op |-> "optimize_route", args |-> <<start_index>>,
                    before |-> df, after |-> df,
                    result |-> [err |-> r.err, route |-> r.route,
                                visited |-> r.visited]]
        /\ earlier' = Earlier("optimize_route", <<start_index>>, df)
        /\ UNCHANGED <<df, rand42, np_random, server>>

\* other values for the column "Waste_Tons": the demo's, last row first
OtherWasteTons == <<900, 700, 800, 400, 600, 500>>

\* df["Waste_Tons"] = ...: between two calls of generate_collection_routes
\* the caller replaces the weights of the hotspots, once
ReplaceWasteTons ==
    /\ last.op = "generate_collection_routes"
    /\ NRows(df) >= 1
    /\ df["Waste_Tons"] = SubSeq(WasteTons, 1, NRows(df))
    /\ df' = SetColumn(df, "Waste_Tons", SubSeq(OtherWasteTons, 1, NRows(df)))
    /\ UNCHANGED <<rand42, np_random, last, earlier, server>>

Next ==
    \/ \E n_clusters \in ClusterCounts \cup {NRows(df)} : ClusterHotspots(n_clusters)
    \/ \E n_clusters \in ClusterCounts \cup {NRows(df)} :
            GenerateCollectionRoutes(n_clusters)
    \/ \E start_index \in StartIndexes : OptimizeRoute(start_index)
    \/ ReplaceWasteTons

Spec == Init /\ [][Next]_vars

(***************************************************************************)
(* A caller of haversine alone: any number of calls on the places of the   *)
(* demo, each call remembered together with the call before it.            *)
(***************************************************************************)
InitHaversine ==
    /\ df = DemoFrame(DemoPoints)
    /\ rand42 \in RandStates
    /\ np_random = 0
    /\ last = [op |-> "none", args |-> <<>>, before |-> df, after |-> df,
               result |-> NoResult]
    /\ earlier = NoResult
    /\ server = NoServer

\* dist = haversine(A[0], A[1], B[0], B[1])
Haversine(A, B) ==
    /\ last' = [op |-> "haversine", args |-> <<A[1], A[2], B[1], B[2]>>,
                before |-> df, after |-> df,
                result |-> [err |-> "none",
                            dist |-> haversine(A[1], A[2], B[1], B[2])]]
    /\ earlier' = IF last.op = "haversine"
                  THEN [err |-> "none", args |-> last.args,
                        dist |-> last.result.dist]
                  ELSE NoResult
    /\ UNCHANGED <<df, rand42, np_random, server>>

NextHaversine ==
    \E i, j \in 1..Len(Places) : Haversine(Places[i], Places[j])

SpecHaversine == InitHaversine /\ [][NextHaversine]_vars

(***************************************************************************)
(* src/backend/api.py: GET /explain/shap/{module}?index=, lines 126-163,   *)
(* with SHAPExplainer of src/explainability/shap_explainer.py.             *)
(*                                                                         *)
(* explain_shap is a plain def: every request runs in a thread of its own, *)
(* beside the other requests and beside whoever writes or removes files.   *)
(* A request is received, its handler runs, and the response is sent when  *)
(* the handler has left: three different moments.  A handler looks at the  *)
(* file system four times, at the lines 61, 63, 66 and 68 of               *)
(* shap_explainer.py: a step of a handler is one such look with the code   *)
(* around it that touches nothing shared.  main() of the training script   *)
(* looks at the data file twice and writes the model file at its end.      *)
(* A file is written or replaced in one step.                              *)
(*                                                                         *)
(* server.files maps a file name to 0 when the file is not there, a model  *)
(* file that is there to 1 and a data file that is there to the number of  *)
(* its rows.  server.running is the bag of the requests received and not   *)
(* answered, each with the line its handler is at and, once the handler    *)
(* has left, its response; server.received counts the requests;            *)
(* server.training is the line main() of the training script is at.        *)
(* An exception is a record: err is its class and str is str(e).  The      *)
(* response to a request is its HTTP status with the detail of the error   *)
(* or the body.                                                            *)
(***************************************************************************)
\* the most requests the server receives in a run
MaxRequests == 2

\* the model and the data file of a module, lines 129-153
ModelNames ==
    [uhi |-> "uhi_random_forest.pkl",
     flood |-> "flood_random_forest.pkl",
     plastic |-> "plastic_random_forest.pkl"]

DataFiles ==
    [uhi |-> "uhi_clean.csv",
     flood |-> "flood_clean.csv",
     plastic |-> "plastic_clean.csv"]

\* the module names of the if/elif chain
KnownModules == DOMAIN ModelNames

\* the module names a request may carry: a path segment, never empty
RequestModules == KnownModules \cup {"air", "UHI"}

\* the values of the query parameter index a request may carry: the first
\* row, which every data file has, and the last row of the longest data
\* file, which a shorter one has not
RequestIndexes == {0, MaxRows - 1}

\* the files the three modules need
AllFiles ==
    {ModelNames[m] : m \in KnownModules} \cup {DataFiles[m] : m \in KnownModules}

\* os.path.exists(path)
Exists(files, file) == files[file] > 0

\* HTTPException(status_code, detail); its str is "<status_code>: <detail>"
HTTPException(status_code, detail) ==
    [err |-> "HTTPException", status_code |-> status_code, detail |-> detail,
     str |-> ToString(status_code) \o ": " \o detail]

FileNotFoundError(message) == [err |-> "FileNotFoundError", str |-> message]

\* open() of a file that is not there, in joblib.load and in pd.read_csv
NoSuchFile(file) ==
    FileNotFoundError("[Errno 2] No such file or directory: " \o file)

\* api.py lines 129-155: the arguments of SHAPExplainer for the module, or
\* HTTPException(400)
Dispatch(module) ==
    IF module \in KnownModules
    THEN [err |-> "none", model_name |-> ModelNames[module],
          data_file |-> DataFiles[module]]
    ELSE HTTPException(400, "Invalid module name")

\* _load_model, lines 61-62
CheckModel(files, model_name) ==
    IF ~Exists(files, model_name)
    THEN FileNotFoundError("Model not found: " \o model_name)
    ELSE [err |-> "none"]

\* _load_model, line 63
JoblibLoad(files, model_name) ==
    IF ~Exists(files, model_name) THEN NoSuchFile(model_name)
    ELSE [err |-> "none"]

\* _load_data, lines 66-67
CheckData(files, data_file) ==
    IF ~Exists(files, data_file)
    THEN FileNotFoundError("Data not found: " \o data_file)
    ELSE [err |-> "none"]

\* _load_data, lines 68-69: the rows read
ReadCsv(files, data_file) ==
    IF ~Exists(files, data_file) THEN NoSuchFile(data_file)
    ELSE [err |-> "none", rows |-> files[data_file]]

\* explainer.local_text_summary(index): self.shap_values[index] raises
\* IndexError unless -rows <= index < rows
local_text_summary(rows, index) ==
    IF -rows <= index /\ index < rows
    THEN [err |-> "none", text |-> "Local explanation for instance"]
    ELSE [err |-> "IndexError", str |-> "index out of bounds"]

\* api.py lines 157-160, on an explainer of a data file of so many rows
Summaries(rows, index) ==
    IF local_text_summary(rows, index).err # "none"
    THEN local_text_summary(rows, index)
    ELSE [err |-> "none",
          global_summary |-> "Global SHAP Explanation",
          local_summary |-> local_text_summary(rows, index).text]

\* "except Exception as e", api.py lines 162-163: every exception raised in
\* the try, HTTPException (a subclass of Exception) included, becomes
\* HTTPException(500, str(e))
ExceptException(tried) ==
    IF tried.err = "none" THEN tried ELSE HTTPException(500, tried.str)

\* the response FastAPI sends for what the handler returned or raised
Response(outcome) ==
    IF outcome.err = "none"
    THEN [status |-> 200, detail |-> "",
          body |-> <<outcome.global_summary, outcome.local_summary>>]
    ELSE [status |-> outcome.status_code, detail |-> outcome.detail, body |-> <<>>]

\* the result of a handler that has not left yet
NoResponse == [status |-> 0, detail |-> "", body |-> <<>>]

\* sklearn's train_test_split(X, y, test_size=0.2) on so many rows, lines
\* 116-121 of train_plastic_model.py: ceil(0.2 * rows) rows are for the test
\* and the others for the training; ValueError when none is left to train on
NTest(rows) == (rows + 4) \div 5

train_test_split(rows) ==
    IF rows - NTest(rows) = 0
    THEN [err |-> "ValueError", str |-> "the resulting train set will be empty"]
    ELSE [err |-> "none", n_train |-> rows - NTest(rows), n_test |-> NTest(rows)]

\* the server has started: api.py lines 35-37 have loaded the three models;
\* data files may be missing; no request has come; nothing is being trained
InitApi ==
    /\ df = DemoFrame(DemoPoints)
    /\ rand42 = 0
    /\ np_random = 0
    /\ last = [op |-> "none", args |-> <<>>, before |-> df, after |-> df,
               result |-> NoResult]
    /\ earlier = NoResult
    /\ server \in {[files |-> [f \in AllFiles |->
                                IF f \in DOMAIN data THEN data[f] ELSE 1],
                    running |-> EmptyBag,
                    received |-> 0,
                    training |-> "idle"] :
                       data \in [{DataFiles[m] : m \in KnownModules} -> 0..MaxRows]}

\* the handler of a request leaves with this outcome, returned or raised:
\* the response is ready and waits to be sent
Return(request, outcome) ==
    /\ server' = [server EXCEPT
                    !.running = (@ (-) SetToBag({request})) (+)
                        SetToBag({[request EXCEPT
                                    !.at = "return",
                                    !.result = Response(ExceptException(outcome))]})]
    /\ UNCHANGED last

\* the handler of a request goes on to the line at
Proceed(request, at) ==
    /\ server' = [server EXCEPT
                    !.running = (@ (-) SetToBag({request})) (+)
                        SetToBag({[request EXCEPT !.at = at]})]
    /\ UNCHANGED last

\* GET /explain/shap/{module}?index={index} is received: the handler is
\* handed to a worker thread
ExplainShap(module, index) ==
    /\ server.received < MaxRequests
    /\ server' = [server EXCEPT
                    !.received = @ + 1,
                    !.running = @ (+) SetToBag({[module |-> module,
                                                 index |-> index,
                                                 at |-> "try",
                                                 result |-> NoResponse]})]
    /\ UNCHANGED <<df, rand42, np_random, last, earlier>>

\* a handler enters the try: the if/elif chain, SHAPExplainer.__init__ up to
\* os.path.exists(self.model_path), line 61
BuildExplainer(request) ==
    /\ request.at = "try"
    /\ \E found \in {IF Dispatch(request.module).err # "none"
                     THEN Dispatch(request.module)
                     ELSE CheckModel(server.files, ModelNames[request.module])} :
        IF found.err = "none" THEN Proceed(request, "joblib.load")
        ELSE Return(request, found)
    /\ UNCHANGED <<df, rand42, np_random, earlier>>

\* a handler at joblib.load(self.model_path), line 63
LoadModel(request) ==
    /\ request.at = "joblib.load"
    /\ \E loaded \in {JoblibLoad(server.files, ModelNames[request.module])} :
        IF loaded.err = "none" THEN Proceed(request, "os.path.exists")
        ELSE Return(request, loaded)
    /\ UNCHANGED <<df, rand42, np_random, earlier>>

\* a handler at os.path.exists(self.data_path), line 66
LoadData(request) ==
    /\ request.at = "os.path.exists"
    /\ \E found \in {CheckData(server.files, DataFiles[request.module])} :
        IF found.err = "none" THEN Proceed(request, "pd.read_csv")
        ELSE Return(request, found)
    /\ UNCHANGED <<df, rand42, np_random, earlier>>

\* a handler at pd.read_csv(self.data_path), line 68, and from there to its
\* end: the explainer, the two summaries
ReadData(request) ==
    /\ request.at = "pd.read_csv"
    /\ \E read \in {ReadCsv(server.files, DataFiles[request.module])} :
        Return(request, IF read.err = "none"
                        THEN Summaries(read.rows, request.index)
                        ELSE read)
    /\ UNCHANGED <<df, rand42, np_random, earlier>>

\* the event loop sends the response of a handler that has left
SendResponse(request) ==
    /\ request.at = "return"
    /\ server' = [server EXCEPT !.running = @ (-) SetToBag({request})]
    /\ last' = [op |-> "explain_shap", args |-> <<request.module, request.index>>,
                before |-> df, after |-> df, result |-> request.result]
    /\ UNCHANGED <<df, rand42, np_random, earlier>>

\* a file is removed while the server runs
RemoveFile(file) ==
    /\ Exists(server.files, file)
    /\ server' = [server EXCEPT !.files[file] = 0]
    /\ UNCHANGED <<df, rand42, np_random, last, earlier>>

\* df_clean.to_csv(output_path, index=False) at the end of main() of the
\* three scripts of src/preprocessing: the file is written, new or over
\* the old one, with the rows of the raw data (MinMaxScaler in preprocess
\* raises on no row, so there is at least one)
ToCsv(files, output_file, rows) == [files EXCEPT ![output_file] = rows]

\* preprocessing/ingest_uhi.py, main()
IngestUhiMain(rows) ==
    /\ server' = [server EXCEPT !.files = ToCsv(@, "uhi_clean.csv", rows)]
    /\ UNCHANGED <<df, rand42, np_random, last, earlier>>

\* preprocessing/ingest_flood.py, main()
IngestFloodMain(rows) ==
    /\ server' = [server EXCEPT !.files = ToCsv(@, "flood_clean.csv", rows)]
    /\ UNCHANGED <<df, rand42, np_random, last, earlier>>

\* preprocessing/ingest_plastic.py, main()
IngestPlasticMain(rows) ==
    /\ server' = [server EXCEPT !.files = ToCsv(@, "plastic_clean.csv", rows)]
    /\ UNCHANGED <<df, rand42, np_random, last, earlier>>

\* training/train_plastic_model.py, save_model(model): joblib.dump writes
\* plastic_random_forest.pkl
SaveModel ==
    /\ server' = [server EXCEPT !.files[ModelNames["plastic"]] = 1]
    /\ UNCHANGED <<df, rand42, np_random, last, earlier>>

\* training/train_plastic_model.py, main() starts: load_data() looks for
\* plastic_clean.csv, line 58, and raises when it is not there
TrainPlasticMain ==
    /\ server.training = "idle"
    /\ server' = [server EXCEPT
                    !.training = IF Exists(server.files, DataFiles["plastic"])
                                 THEN "pd.read_csv" ELSE "idle"]
    /\ UNCHANGED <<df, rand42, np_random, last, earlier>>

\* main() at pd.read_csv(DATA_PATH), line 62, and from there to the call of
\* save_model: the split raises on too few rows; the model is fitted and
\* evaluated otherwise
TrainModel ==
    /\ server.training = "pd.read_csv"
    /\ \E read \in {ReadCsv(server.files, DataFiles["plastic"])} :
        server' = [server EXCEPT
                    !.training = IF read.err # "none" THEN "idle"
                                 ELSE IF train_test_split(read.rows).err # "none"
                                      THEN "idle"
                                      ELSE "save_model"]
    /\ UNCHANGED <<df, rand42, np_random, last, earlier>>

\* main() at save_model(model), line 130: the model file is written and
\* main() ends
TrainSaveModel ==
    /\ server.training = "save_model"
    /\ server' = [server EXCEPT !.files[ModelNames["plastic"]] = 1,
                                !.training = "idle"]
    /\ UNCHANGED <<df, rand42, np_random, last, earlier>>

NextApi ==
    \/ \E module \in RequestModules, index \in RequestIndexes :
            ExplainShap(module, index)
    \/ \E request \in BagToSet(server.running) : BuildExplainer(request)
    \/ \E request \in BagToSet(server.running) : LoadModel(request)
    \/ \E request \in BagToSet(server.running) : LoadData(request)
    \/ \E request \in BagToSet(server.running) : ReadData(request)
    \/ \E request \in BagToSet(server.running) : SendResponse(request)
    \/ \E file \in AllFiles : RemoveFile(file)
    \/ \E rows \in 1..MaxRows : IngestUhiMain(rows)
    \/ \E rows \in 1..MaxRows : IngestFloodMain(rows)
    \/ \E rows \in 1..MaxRows : IngestPlasticMain(rows)
    \/ SaveModel
    \/ TrainPlasticMain
    \/ TrainModel
    \/ TrainSaveModel

SpecApi == InitApi /\ [][NextApi]_vars

(***************************************************************************)
(* The properties.                                                         *)
(***************************************************************************)
\* how often x occurs in the list s
Count(s, x) == Cardinality({i \in 1..Len(s) : s[i] = x})

\* the same length and the same multiset of elements
IsPermutation(s, t) ==
    /\ Len(s) = Len(t)
    /\ \A i \in 1..Len(t) : Count(s, t[i]) = Count(t, t[i])

\* the exceptions that stand for the specification's InvalidParameter: the
\* ValueError of scikit-learn (its InvalidParameterError is a ValueError)
\* and the IndexError of a list index out of range
InvalidParameter == {"ValueError", "InvalidParameterError", "IndexError"}

\* the arguments and the input of the last call
LastPoints == Coords(last.before)

LastArg == last.args[1]

Returned == last.result.err = "none"

\* 1 <= n_clusters <= n
ValidClusterCount == 1 <= LastArg /\ LastArg <= Len(LastPoints)

\* C1: for a start_index that is an index of the list, 0 <= start_index <
\* len(points), optimize_route returns a permutation of the input: the same
\* length, every point as often as in the input.
C1_RouteIsPermutation ==
    (last.op = "optimize_route" /\ 0 <= LastArg /\ LastArg < Len(LastPoints))
        => /\ Returned
           /\ IsPermutation(last.result.route, LastPoints)

\* a route of four stops, not in the order of the input, from a start that
\* is not the first point, on an input with a repeated point
C1_Witness ==
    /\ last.op = "optimize_route" /\ Returned
    /\ Len(LastPoints) = 4 /\ LastArg = 2
    /\ last.result.route # LastPoints
    /\ \E i, j \in 1..4 : i # j /\ LastPoints[i] = LastPoints[j]
    /\ \E i, j \in 1..4 : LastPoints[i] # LastPoints[j]

\* C2: with a start_index out of bounds of a non-empty list (start_index >=
\* len(points) or start_index < 0) optimize_route fails with InvalidParameter
\* and returns no route.
C2_OutOfBoundsStartFails ==
    (/\ last.op = "optimize_route"
     /\ Len(LastPoints) > 0
     /\ (LastArg >= Len(LastPoints) \/ LastArg < 0))
        => /\ last.result.err \in InvalidParameter
           /\ last.result.route = <<>>

\* C3: for a non-empty list and a valid start_index the first stop of the
\* route is the point at start_index.
C3_FirstStopIsStart ==
    (last.op = "optimize_route" /\ 0 <= LastArg /\ LastArg < Len(LastPoints))
        => /\ Returned
           /\ last.result.route[1] = LastPoints[LastArg + 1]

\* a start that is not index 0, at a point other than the first
C3_Witness ==
    /\ last.op = "optimize_route" /\ Returned
    /\ LastArg >= 1 /\ LastArg < Len(LastPoints)
    /\ LastPoints[LastArg + 1] # LastPoints[1]
    /\ last.result.route[1] = LastPoints[LastArg + 1]

\* C4: on the empty list optimize_route returns the empty route and raises
\* nothing, whatever start_index is.
C4_EmptyListEmptyRoute ==
    (last.op = "optimize_route" /\ Len(LastPoints) = 0)
        => Returned /\ last.result.route = <<>>

\* the empty list with a start_index that is no index of any list of it
C4_Witness ==
    /\ last.op = "optimize_route" /\ Len(LastPoints) = 0
    /\ LastArg = 2
    /\ Returned /\ last.result.route = <<>>

\* the rows of the frame the caller holds that carry cluster id c
Members(c) == RowsOf(df, c, 1)

\* C5: for a non-empty input and 1 <= k <= n, cluster_hotspots gives every
\* input point exactly one cluster id of 0..k-1: the member lists of the
\* clusters 0..k-1 are pairwise disjoint and their sizes add up to n.
C5_ClustersPartitionInput ==
    (last.op = "cluster_hotspots" /\ ValidClusterCount)
        => /\ Returned
           /\ "Cluster" \in DOMAIN df
           /\ df["Cluster"] = last.result.labels
           /\ Len(df["Cluster"]) = Len(LastPoints)
           /\ \A i \in 1..Len(LastPoints) : df["Cluster"][i] \in 0..(LastArg - 1)
           /\ \A c, d \in 0..(LastArg - 1) :
                c # d => \A i \in 1..Len(Members(c)), j \in 1..Len(Members(d)) :
                            Members(c)[i] # Members(d)[j]
           /\ \A i \in 1..Len(LastPoints) :
                \E c \in 0..(LastArg - 1) :
                    \E j \in 1..Len(Members(c)) : Members(c)[j] = i
           /\ SumSeq([c \in 1..LastArg |-> Len(Members(c - 1))]) = Len(LastPoints)

\* four points in two clusters of two members each
C5_Witness ==
    /\ last.op = "cluster_hotspots" /\ Returned
    /\ LastArg = 2 /\ Len(LastPoints) = 4
    /\ Len(Members(0)) = 2 /\ Len(Members(1)) = 2

\* C6: cluster_hotspots fails with InvalidParameter, and assigns no cluster,
\* when n_clusters < 1, n_clusters > n or the input is empty.
C6_InvalidClusterCountFails ==
    (/\ last.op = "cluster_hotspots"
     /\ (LastArg < 1 \/ LastArg > Len(LastPoints) \/ Len(LastPoints) = 0))
        => /\ last.result.err \in InvalidParameter
           /\ last.result.labels = <<>>
           /\ last.after = last.before

\* more clusters asked for than the non-empty input has points
C6_Witness ==
    /\ last.op = "cluster_hotspots"
    /\ Len(LastPoints) = 2 /\ LastArg = 3
    /\ last.result.err = "ValueError"

\* the routes of the last call, one after the other in the order of the ids
RECURSIVE Concatenation(_, _)
Concatenation(routes, ids) ==
    IF ids = {} THEN <<>>
    ELSE LET c == CHOOSE x \in ids : \A y \in ids : x <= y
         IN  routes[c] \o Concatenation(routes, ids \ {c})

AllStops == Concatenation(last.result.routes, DOMAIN last.result.routes)

\* C7: for a valid n_clusters the routes of generate_collection_routes, put
\* together, are a permutation of the input points: every input point is a
\* stop of one route, once, and every stop is an input point.
C7_RoutesCoverInput ==
    (last.op = "generate_collection_routes" /\ ValidClusterCount)
        => /\ Returned
           /\ IsPermutation(AllStops, LastPoints)

\* two routes, one of them of three stops, on an input with a repeated point
C7_Witness ==
    /\ last.op = "generate_collection_routes" /\ Returned
    /\ Len(LastPoints) = 4
    /\ Cardinality(DOMAIN last.result.routes) = 2
    /\ \E c \in DOMAIN last.result.routes : Len(last.result.routes[c]) = 3
    /\ \E i, j \in 1..4 : i # j /\ LastPoints[i] = LastPoints[j]

\* the coordinates that occur in the input
DistinctPoints == {LastPoints[i] : i \in 1..Len(LastPoints)}

\* C8, as claimed: for every input, repeated coordinates included, and
\* 1 <= k <= n the RouteSet holds one route for each cluster index 0..k-1,
\* that is exactly k entries.
C8_ExactlyKRoutes ==
    (last.op = "generate_collection_routes" /\ ValidClusterCount)
        => /\ Returned
           /\ DOMAIN last.result.routes = 0..(LastArg - 1)

\* C8, amended: the RouteSet holds one route for each cluster index of
\* 0..k-1 that at least one input point was assigned to: at least one entry,
\* at most k, and at most as many as the input has distinct coordinates.
C8_OneRoutePerAssignedCluster ==
    (last.op = "generate_collection_routes" /\ ValidClusterCount)
        => /\ Returned
           /\ DOMAIN last.result.routes = UniqueClusters(df)
           /\ DOMAIN last.result.routes \subseteq 0..(LastArg - 1)
           /\ Cardinality(DOMAIN last.result.routes) >= 1
           /\ Cardinality(DOMAIN last.result.routes) <= LastArg
           /\ Cardinality(DOMAIN last.result.routes) <= Cardinality(DistinctPoints)

\* three clusters asked of four points at two places: two routes
C8_Witness ==
    /\ last.op = "generate_collection_routes" /\ Returned
    /\ Len(LastPoints) = 4 /\ LastArg = 3
    /\ Cardinality(DistinctPoints) = 2
    /\ Cardinality(DOMAIN last.result.routes) = 2

\* C9: two calls of cluster_hotspots with the same input points and the same
\* n_clusters (the seed is 42 in both) give the same cluster assignment:
\* nothing the first call leaves behind changes the result of the second.
C9_SameCallSameClusters ==
    (last.op = "cluster_hotspots" /\ earlier.err = "none")
        => /\ Returned
           /\ last.result.labels = earlier.labels

\* the second of two calls on four points, on a frame that holds the column
\* "Cluster" of the first, with two clusters in use
C9_Witness ==
    /\ last.op = "cluster_hotspots" /\ earlier.err = "none" /\ Returned
    /\ "Cluster" \in DOMAIN last.before
    /\ Len(LastPoints) = 4 /\ LastArg = 2
    /\ \E i, j \in 1..4 : last.result.labels[i] # last.result.labels[j]

\* C10: cluster_hotspots and generate_collection_routes have no side effect:
\* after the call the caller's frame has the columns and the values it had
\* before the call.
C10_InputFrameUnchanged ==
    last.op \in {"cluster_hotspots", "generate_collection_routes"}
        => last.after = last.before

\* C11, as claimed: a call of cluster_hotspots with n_clusters equal to the
\* number n of input points gives n singleton clusters: each of the cluster
\* ids 0..n-1 has exactly one member.
C11_AllSingletons ==
    (/\ last.op = "cluster_hotspots"
     /\ Len(LastPoints) >= 1 /\ LastArg = Len(LastPoints))
        => /\ Returned
           /\ \A c \in 0..(LastArg - 1) : Len(Members(c)) = 1

\* C11, amended: when the n input points have pairwise distinct coordinates,
\* a call with n_clusters = n gives n singleton clusters.
C11_DistinctPointsSingletons ==
    (/\ last.op = "cluster_hotspots"
     /\ Len(LastPoints) >= 1 /\ LastArg = Len(LastPoints)
     /\ Cardinality(DistinctPoints) = Len(LastPoints))
        => /\ Returned
           /\ \A c \in 0..(LastArg - 1) : Len(Members(c)) = 1

\* the six hotspots of the demo in six clusters
C11_Witness ==
    /\ last.op = "cluster_hotspots" /\ Returned
    /\ LastPoints = DemoPoints /\ LastArg = 6
    /\ \A c \in 0..5 : Len(Members(c)) = 1

\* C12: when the clusterer fails (n_clusters < 1, n_clusters > n or an empty
\* input), generate_collection_routes fails with the error of the clusterer,
\* whatever it is, builds no route and returns no RouteSet.
C12_ClustererErrorPropagates ==
    (last.op = "generate_collection_routes" /\ ~ValidClusterCount)
        => /\ last.result.err \in InvalidParameter
           /\ last.result.err =
                cluster_hotspots(last.before, LastArg, rand42, np_random).err
           /\ last.result.routes = <<>>
           /\ last.after = last.before

\* more clusters asked for than the two points of the input
C12_Witness ==
    /\ last.op = "generate_collection_routes"
    /\ Len(LastPoints) = 2 /\ LastArg = 3
    /\ last.result.err = "ValueError"
    /\ last.result.routes = <<>>

\* C13: haversine is symmetric: the distance from A to B is the distance
\* from B to A, for every two points A and B.
C13_HaversineSymmetric ==
    (/\ last.op = "haversine" /\ earlier.err = "none"
     /\ earlier.args = <<last.args[3], last.args[4], last.args[1], last.args[2]>>)
        => last.result.dist = earlier.dist

\* Bengaluru to Delhi after Delhi to Bengaluru: 1739.533 km both ways
C13_Witness ==
    /\ last.op = "haversine" /\ earlier.err = "none"
    /\ last.args = <<B1[1], B1[2], D1[1], D1[2]>>
    /\ earlier.args = <<D1[1], D1[2], B1[1], B1[2]>>
    /\ last.result.dist = 1739533
    /\ earlier.dist = 1739533

\* the points that are stops of the route of cluster c
Stops(c) == {last.result.routes[c][i] : i \in 1..Len(last.result.routes[c])}

\* the demo: its six hotspots, n_clusters=2
DemoCall ==
    /\ last.op = "generate_collection_routes"
    /\ LastPoints = DemoPoints /\ LastArg = 2

\* C14, as claimed: on the six hotspots of the demo with n_clusters=2,
\* generate_collection_routes gives two clusters, one of the three hotspots
\* of Bengaluru and one of the other three (the two of Mumbai and Delhi's).
C14_DemoBengaluruAndTheRest ==
    DemoCall
        => /\ Returned
           /\ DOMAIN last.result.routes = {0, 1}
           /\ \E c \in {0, 1} :
                /\ Stops(c) = {B1, B2, B3}
                /\ Stops(1 - c) = {M1, M2, D1}

\* C14, amended: the demo gives two clusters; the three hotspots of
\* Bengaluru are in one, Delhi's is in the other, and the two of Mumbai are
\* together, in the one or in the other.
C14_DemoTwoClusters ==
    DemoCall
        => /\ Returned
           /\ DOMAIN last.result.routes = {0, 1}
           /\ \E c \in {0, 1} :
                /\ {B1, B2, B3} \subseteq Stops(c)
                /\ D1 \in Stops(1 - c)
                /\ \/ Stops(c) = {B1, B2, B3} /\ Stops(1 - c) = {M1, M2, D1}
                   \/ Stops(c) = {B1, B2, B3, M1, M2} /\ Stops(1 - c) = {D1}

\* the demo with Mumbai in the cluster of Bengaluru and Delhi alone
C14_Witness ==
    /\ DemoCall /\ Returned
    /\ \E c \in {0, 1} :
        /\ Stops(c) = {B1, B2, B3, M1, M2}
        /\ Stops(1 - c) = {D1}

\* the length of a path: the sum of the haversine distances of its
\* consecutive stops
PathLength(path) ==
    SumSeq([i \in 1..(Len(path) - 1) |->
              haversine(path[i][1], path[i][2], path[i + 1][1], path[i + 1][2])])

\* the orders in which the points of a list of distinct points can be visited
VisitingOrders(points) ==
    {q \in [1..Len(points) -> {points[i] : i \in 1..Len(points)}] :
        \A i, j \in 1..Len(points) : i # j => q[i] # q[j]}

\* C15: on the three hotspots of Bengaluru with start index 0, optimize_route
\* visits each of the three once, and its route is no longer than any other
\* order of the three points that starts at the same point.
C15_BengaluruRouteShortest ==
    (/\ last.op = "optimize_route"
     /\ LastPoints = BengaluruPoints /\ LastArg = 0)
        => /\ Returned
           /\ IsPermutation(last.result.route, BengaluruPoints)
           /\ \A q \in VisitingOrders(BengaluruPoints) :
                q[1] = last.result.route[1]
                    => PathLength(last.result.route) <= PathLength(q)

\* the route B1, B2, B3 of 1553 + 3978 metres; B1, B3, B2 is 8556 metres
C15_Witness ==
    /\ last.op = "optimize_route" /\ Returned
    /\ LastPoints = BengaluruPoints /\ LastArg = 0
    /\ last.result.route = <<B1, B2, B3>>
    /\ PathLength(last.result.route) = 5531
    /\ PathLength(<<B1, B3, B2>>) = 8556

\* a call of optimize_route on a non-empty list with a start_index of the list
ValidRouteCall ==
    /\ last.op = "optimize_route"
    /\ 0 <= LastArg /\ LastArg < Len(LastPoints)

\* the indexes not yet visited before step t, and the distance of the point
\* at index i from the stop the route ends in before step t
UnvisitedBefore(t) ==
    (0..(Len(LastPoints) - 1)) \ {last.result.visited[j] : j \in 1..(t - 1)}

DistanceFromStop(t, i) ==
    haversine(last.result.route[t - 1][1], last.result.route[t - 1][2],
              LastPoints[i + 1][1], LastPoints[i + 1][2])

\* C16: at every step after the first stop, the point appended to the route
\* is an unvisited point at the least haversine distance from the last stop
\* among the unvisited points, and of several such points the one with the
\* lowest index in the input.
C16_NearestLowestIndexNext ==
    ValidRouteCall
        => /\ Returned
           /\ \A t \in 2..Len(last.result.visited) :
                /\ last.result.visited[t] \in UnvisitedBefore(t)
                /\ last.result.route[t] = LastPoints[last.result.visited[t] + 1]
                /\ \A i \in UnvisitedBefore(t) :
                     /\ DistanceFromStop(t, last.result.visited[t])
                            <= DistanceFromStop(t, i)
                     /\ DistanceFromStop(t, last.result.visited[t])
                            = DistanceFromStop(t, i)
                          => last.result.visited[t] <= i

\* from Delhi the two points at Mumbai, indexes 1 and 3, are equally near:
\* index 1 is visited first, then index 3, then Bengaluru
C16_Witness ==
    /\ ValidRouteCall /\ Returned
    /\ LastPoints = <<D1, M1, B1, M1>> /\ LastArg = 0
    /\ DistanceFromStop(2, 1) = DistanceFromStop(2, 3)
    /\ last.result.visited = <<0, 1, 3, 2>>

\* C17: for a list of n >= 1 points and a start_index of the list,
\* optimize_route terminates: the while loop runs n-1 times, each time
\* marking one index visited that was not, and the call returns a route.
\* (visited starts as [start_index] and grows by one index per iteration.)
C17_LoopRunsNMinusOneTimes ==
    ValidRouteCall
        => /\ Returned
           /\ last.result.visited[1] = LastArg
           /\ Len(last.result.visited) - 1 = Len(LastPoints) - 1
           /\ \A t \in 2..Len(last.result.visited) :
                last.result.visited[t] \in UnvisitedBefore(t)
           /\ Len(last.result.route) = Len(LastPoints)

\* three iterations on four points, from the last index
C17_Witness ==
    /\ ValidRouteCall /\ Returned
    /\ Len(LastPoints) = 4 /\ LastArg = 3
    /\ Len(last.result.visited) = 4
    /\ {last.result.visited[t] : t \in 1..4} = 0..3

\* the first row of the input that is in cluster c
EarliestMember(c) ==
    CHOOSE i \in 1..Len(LastPoints) :
        /\ df["Cluster"][i] = c
        /\ \A j \in 1..Len(LastPoints) : df["Cluster"][j] = c => i <= j

\* C18: generate_collection_routes keeps the members of a cluster in the
\* order of the input and builds the route from start_index 0: every route
\* of the RouteSet starts at the member of its cluster that comes first in
\* the input.
C18_RouteStartsAtEarliestMember ==
    (last.op = "generate_collection_routes" /\ Returned)
        => \A c \in DOMAIN last.result.routes :
            /\ \E i \in 1..Len(LastPoints) : df["Cluster"][i] = c
            /\ last.result.routes[c][1] = LastPoints[EarliestMember(c)]

\* the demo with the cluster of Mumbai and Delhi: its route starts at the
\* first hotspot of Mumbai, row 3 of the input
C18_Witness ==
    /\ DemoCall /\ Returned
    /\ \E c \in DOMAIN last.result.routes :
        /\ Stops(c) = {M1, M2, D1}
        /\ EarliestMember(c) = 4
        /\ last.result.routes[c][1] = M1

\* C19: the weights of the hotspots do not influence the result: two calls
\* of generate_collection_routes with the same latitudes and longitudes and
\* the same n_clusters, but other values in "Waste_Tons", return the same
\* RouteSet (or fail alike).
C19_WasteTonsIgnored ==
    (/\ last.op = "generate_collection_routes"
     /\ earlier.err # "no call"
     /\ earlier.waste_tons # last.before["Waste_Tons"])
        => /\ last.result.err = earlier.err
           /\ last.result.routes = earlier.routes

\* the demo, called again after its weights were replaced: two routes
C19_Witness ==
    /\ DemoCall /\ Returned
    /\ earlier.err = "none"
    /\ earlier.waste_tons = WasteTons
    /\ last.before["Waste_Tons"] = OtherWasteTons
    /\ DOMAIN last.result.routes = {0, 1}
    /\ last.result.routes = earlier.routes

\* the request of the last call of explain_shap
RequestModule == last.args[1]

\* C20, as claimed: a request to explain_shap whose module is not "uhi",
\* "flood" or "plastic" is answered with status 400 and the detail "Invalid
\* module name"; status 500 is the answer only when building or querying
\* the explainer failed.
C20_InvalidModuleIs400 ==
    last.op = "explain_shap"
        => /\ RequestModule \notin KnownModules
                => /\ last.result.status = 400
                   /\ last.result.detail = "Invalid module name"
           /\ last.result.status = 500 => RequestModule \in KnownModules

\* how many rows of the input were assigned to cluster c
MemberCount(c) ==
    Cardinality({i \in 1..Len(LastPoints) : df["Cluster"][i] = c})

\* C21: every route of the RouteSet of generate_collection_routes is
\* non-empty: a key is there only for a cluster id that at least one input
\* point was assigned to, so that optimize_route is never given an empty
\* member list; the route has one stop for each member.
C21_RoutesNonEmpty ==
    (last.op = "generate_collection_routes" /\ Returned)
        => \A c \in DOMAIN last.result.routes :
            /\ MemberCount(c) >= 1
            /\ ClusterPoints(df, c) # <<>>
            /\ Len(last.result.routes[c]) = MemberCount(c)
            /\ last.result.routes[c] # <<>>

\* three clusters asked of four points at two places: cluster id 2 has no
\* member and no key, the two routes have four stops together
C21_Witness ==
    /\ last.op = "generate_collection_routes" /\ Returned
    /\ Len(LastPoints) = 4 /\ LastArg = 3
    /\ MemberCount(2) = 0
    /\ DOMAIN last.result.routes = {0, 1}
    /\ last.result.routes[0] # <<>> /\ last.result.routes[1] # <<>>
    /\ Len(last.result.routes[0]) + Len(last.result.routes[1]) = 4

====
